---- MODULE Spec2Model ----
(***************************************************************************)
(* Model of orcamento_aluguel.py: the rent calculator (CalculadoraAluguel), *)
(* the frozen quote record (Orcamento), its summary (resumo / brl) and the  *)
(* 12-row CSV export (ExportadorCSV.exportar_12_parcelas).                  *)
(*                                                                         *)
(* Numbers.  The program computes amounts as Python floats.  Here an amount *)
(* is an exact rational [num, den] in lowest terms.  Over the inputs of     *)
(* this model every float the program forms is either exactly the rational  *)
(* (all rents, 2000/n for n # 3) or within 1e-12 of it and far from a       *)
(* rounding tie (2000/3 and sums with it), so "{:.2f}" of the float and     *)
(* Fmt2 of the rational print the same digits.                              *)
(*                                                                         *)
(* Text.  A str that the program inspects (the property type) is a sequence *)
(* of one-character strings; a "{:.2f}" text is the record of its integer   *)
(* part and its two decimal digits; Optional[bool] is one of "None",        *)
(* "True", "False".  A raised exception is the result [erro |-> name].      *)
(***************************************************************************)
EXTENDS Integers, Sequences, FiniteSets

VARIABLES chamada, pc, erro, retorno, orcs, impresso, arquivos, historico

vars == <<chamada, pc, erro, retorno, orcs, impresso, arquivos, historico>>

(***************************************************************************)
(* Bounds of the model.                                                     *)
(***************************************************************************)
MaxQuartos == 3
MaxVagas == 3
MaxOrcs == 2
MaxExport == 3

(***************************************************************************)
(* Class constants of CalculadoraAluguel (amounts in reais).                *)
(***************************************************************************)
VALOR_APARTAMENTO_1Q == 700
VALOR_CASA_1Q == 900
VALOR_ESTUDIO == 1200
CONTRATO_TOTAL == 2000
MAX_PARCELAS_CONTRATO == 5
ADIC_APTO_2Q == 200
ADIC_CASA_2Q == 250
ADIC_GARAGEM_APTO_CASA == 300
ESTUDIO_2_VAGAS_VALOR == 250
ESTUDIO_VAGA_EXTRA_VALOR == 60
ESTUDIO_VAGAS_MIN == 0

(***************************************************************************)
(* Rational arithmetic standing for the float operations of the program.    *)
(***************************************************************************)
RECURSIVE GCD(_, _)
GCD(a, b) == IF b = 0 THEN a ELSE GCD(b, a % b)

Abs(n) == IF n < 0 THEN -n ELSE n

Rat(n, d) ==
    LET g == GCD(Abs(n), d)
    IN  [num |-> n \div g, den |-> d \div g]

Float(n) == Rat(n, 1)

FAdd(a, b) == Rat(a.num * b.den + b.num * a.den, a.den * b.den)

FSub(a, b) == Rat(a.num * b.den - b.num * a.den, a.den * b.den)

FMul(a, b) == Rat(a.num * b.num, a.den * b.den)

FDivInt(a, n) == Rat(a.num, a.den * n)

DESCONTO_APTO_SEM_CRIANCAS == Rat(5, 100)

(***************************************************************************)
(* f"{valor:.2f}": the amount rounded to the nearest cent (ties to even),   *)
(* printed as integer part, ".", two digits.  Amounts are non-negative.     *)
(***************************************************************************)
\* Faulty variant: the cents are truncated instead of rounded.
CentavosTruncado(v) == (v.num * 100) \div v.den

Centavos(v) ==
    LET n100 == v.num * 100
        fl   == n100 \div v.den
        r2   == 2 * (n100 % v.den)
    IN  IF r2 > v.den THEN fl + 1
        ELSE IF r2 < v.den THEN fl
        ELSE IF fl % 2 = 0 THEN fl ELSE fl + 1

Fmt2(v) ==
    LET c == Centavos(v)
    IN  [int |-> c \div 100, dec |-> <<(c % 100) \div 10, c % 10>>]

\* float("666.67") * 100: the cents a printed amount stands for.
EmCentavos(t) == t.int * 100 + t.dec[1] * 10 + t.dec[2]

(***************************************************************************)
(* brl: "{valor:,.2f}" with the separators swapped, prefixed by "R$ ".      *)
(* The integer part is split in groups (most significant first; the first   *)
(* as a number, the others as three digits), joined by "." ; the decimals   *)
(* follow a ",".                                                            *)
(***************************************************************************)
RECURSIVE Grupos(_)
Grupos(n) ==
    IF n < 1000 THEN << <<n>> >>
    ELSE Append(Grupos(n \div 1000),
                <<(n % 1000) \div 100, (n % 100) \div 10, n % 10>>)

brl(valor) ==
    LET t == Fmt2(valor)
    IN  [prefixo |-> "R$ ", grupos |-> Grupos(t.int), sepMilhar |-> ".",
         sepDecimal |-> ",", dec |-> t.dec]

(***************************************************************************)
(* str.strip() and str.lower() on sequences of characters.                  *)
(***************************************************************************)
Brancos == {" ", "\t", "\n"}

Maiusculas == <<"A", "C", "D", "E", "I", "K", "M", "N", "O", "P", "R", "S", "T", "U", "Ú">>
Minusculas == <<"a", "c", "d", "e", "i", "k", "m", "n", "o", "p", "r", "s", "t", "u", "ú">>

LowerChar(c) ==
    IF \E k \in DOMAIN Maiusculas : Maiusculas[k] = c
    THEN Minusculas[CHOOSE k \in DOMAIN Maiusculas : Maiusculas[k] = c]
    ELSE c

Lower(s) == [k \in DOMAIN s |-> LowerChar(s[k])]

RECURSIVE LStrip(_)
LStrip(s) == IF s # <<>> /\ Head(s) \in Brancos THEN LStrip(Tail(s)) ELSE s

RECURSIVE RStrip(_)
RStrip(s) ==
    IF s # <<>> /\ s[Len(s)] \in Brancos
    THEN RStrip(SubSeq(s, 1, Len(s) - 1))
    ELSE s

Strip(s) == RStrip(LStrip(s))

S_apartamento == <<"a", "p", "a", "r", "t", "a", "m", "e", "n", "t", "o">>
S_apto == <<"a", "p", "t", "o">>
S_casa == <<"c", "a", "s", "a">>
S_estudio == <<"e", "s", "t", "u", "d", "i", "o">>
S_estudio_acento == <<"e", "s", "t", "ú", "d", "i", "o">>
S_studio == <<"s", "t", "u", "d", "i", "o">>

(***************************************************************************)
(* CalculadoraAluguel._normalizar_tipo                                      *)
(***************************************************************************)
normalizar_tipo(tipo) ==
    LET t == Lower(Strip(tipo))
    IN  IF t \in {S_apartamento, S_apto} THEN [erro |-> "", val |-> "Apartamento"]
        ELSE IF t \in {S_casa} THEN [erro |-> "", val |-> "Casa"]
        ELSE IF t \in {S_estudio, S_estudio_acento, S_studio}
             THEN [erro |-> "", val |-> "Estudio"]
        ELSE [erro |-> "ValueError", val |-> ""]

(***************************************************************************)
(* CalculadoraAluguel._validar_parcelas (the argument is an int)            *)
(***************************************************************************)
\* Faulty variant: the lower limit is off by one.
validar_parcelas_desde_zero(parcelas) ==
    IF parcelas < 0 \/ parcelas > MAX_PARCELAS_CONTRATO
    THEN [erro |-> "ValueError", val |-> 0]
    ELSE [erro |-> "", val |-> parcelas]

validar_parcelas(parcelas) ==
    IF parcelas < 1 \/ parcelas > MAX_PARCELAS_CONTRATO
    THEN [erro |-> "ValueError", val |-> 0]
    ELSE [erro |-> "", val |-> parcelas]

(***************************************************************************)
(* CalculadoraAluguel._calc_apartamento                                     *)
(***************************************************************************)
\* Faulty variant: `not possui_criancas` in place of `possui_criancas is False`.
calc_apartamento_sem_resposta(quartos, tem_garagem, possui_criancas) ==
    IF quartos \notin {1, 2} THEN [erro |-> "ValueError", val |-> Float(0)]
    ELSE
      LET a1 == Float(VALOR_APARTAMENTO_1Q)
          a2 == IF quartos = 2 THEN FAdd(a1, Float(ADIC_APTO_2Q)) ELSE a1
          a3 == IF tem_garagem THEN FAdd(a2, Float(ADIC_GARAGEM_APTO_CASA)) ELSE a2
          a4 == IF possui_criancas # "True"
                THEN FMul(a3, FSub(Float(1), DESCONTO_APTO_SEM_CRIANCAS))
                ELSE a3
      IN  [erro |-> "", val |-> a4]

calc_apartamento(quartos, tem_garagem, possui_criancas) ==
    IF quartos \notin {1, 2} THEN [erro |-> "ValueError", val |-> Float(0)]
    ELSE
      LET a1 == Float(VALOR_APARTAMENTO_1Q)
          a2 == IF quartos = 2 THEN FAdd(a1, Float(ADIC_APTO_2Q)) ELSE a1
          a3 == IF tem_garagem THEN FAdd(a2, Float(ADIC_GARAGEM_APTO_CASA)) ELSE a2
          a4 == IF possui_criancas = "False"
                THEN FMul(a3, FSub(Float(1), DESCONTO_APTO_SEM_CRIANCAS))
                ELSE a3
      IN  [erro |-> "", val |-> a4]

(***************************************************************************)
(* CalculadoraAluguel._calc_casa                                            *)
(***************************************************************************)
\* Faulty variant: the apartment surcharge is added for the second bedroom.
calc_casa_adic_apto(quartos, tem_garagem) ==
    IF quartos \notin {1, 2} THEN [erro |-> "ValueError", val |-> Float(0)]
    ELSE
      LET a1 == Float(VALOR_CASA_1Q)
          a2 == IF quartos = 2 THEN FAdd(a1, Float(ADIC_APTO_2Q)) ELSE a1
          a3 == IF tem_garagem THEN FAdd(a2, Float(ADIC_GARAGEM_APTO_CASA)) ELSE a2
      IN  [erro |-> "", val |-> a3]

calc_casa(quartos, tem_garagem) ==
    IF quartos \notin {1, 2} THEN [erro |-> "ValueError", val |-> Float(0)]
    ELSE
      LET a1 == Float(VALOR_CASA_1Q)
          a2 == IF quartos = 2 THEN FAdd(a1, Float(ADIC_CASA_2Q)) ELSE a1
          a3 == IF tem_garagem THEN FAdd(a2, Float(ADIC_GARAGEM_APTO_CASA)) ELSE a2
      IN  [erro |-> "", val |-> a3]

(***************************************************************************)
(* CalculadoraAluguel._calc_estudio (the argument is an int)                *)
(***************************************************************************)
\* Faulty variant: the check of vagas against ESTUDIO_VAGAS_MIN is missing.
calc_estudio_sem_minimo(vagas) ==
    IF vagas = 0 THEN [erro |-> "", val |-> Float(VALOR_ESTUDIO)]
    ELSE IF vagas <= 2
         THEN [erro |-> "", val |-> FAdd(Float(VALOR_ESTUDIO), Float(ESTUDIO_2_VAGAS_VALOR))]
    ELSE [erro |-> "",
          val |-> FAdd(Float(VALOR_ESTUDIO),
                       FAdd(Float(ESTUDIO_2_VAGAS_VALOR),
                            FMul(Float(vagas - 2), Float(ESTUDIO_VAGA_EXTRA_VALOR))))]

\* Faulty variant: a single slot is charged by the slot, not as the package.
calc_estudio_por_vaga(vagas) ==
    IF vagas < ESTUDIO_VAGAS_MIN THEN [erro |-> "ValueError", val |-> Float(0)]
    ELSE IF vagas = 0 THEN [erro |-> "", val |-> Float(VALOR_ESTUDIO)]
    ELSE IF vagas < 2
         THEN [erro |-> "", val |-> FAdd(Float(VALOR_ESTUDIO),
                                         Float(vagas * ESTUDIO_VAGA_EXTRA_VALOR))]
    ELSE [erro |-> "",
          val |-> FAdd(Float(VALOR_ESTUDIO),
                       FAdd(Float(ESTUDIO_2_VAGAS_VALOR),
                            FMul(Float(vagas - 2), Float(ESTUDIO_VAGA_EXTRA_VALOR))))]

calc_estudio(vagas) ==
    IF vagas < ESTUDIO_VAGAS_MIN THEN [erro |-> "ValueError", val |-> Float(0)]
    ELSE IF vagas = 0 THEN [erro |-> "", val |-> Float(VALOR_ESTUDIO)]
    ELSE IF vagas <= 2
         THEN [erro |-> "", val |-> FAdd(Float(VALOR_ESTUDIO), Float(ESTUDIO_2_VAGAS_VALOR))]
    ELSE [erro |-> "",
          val |-> FAdd(Float(VALOR_ESTUDIO),
                       FAdd(Float(ESTUDIO_2_VAGAS_VALOR),
                            FMul(Float(vagas - 2), Float(ESTUDIO_VAGA_EXTRA_VALOR))))]

(***************************************************************************)
(* Orcamento(...): the frozen dataclass.                                    *)
(***************************************************************************)
Orcamento(tipo, quartos, garagem, criancas, vagas, aluguel, total, parcelas) ==
    [tipo_imovel |-> tipo, quartos |-> quartos, tem_garagem |-> garagem,
     criancas |-> criancas, vagas_estudio |-> vagas, aluguel_mensal |-> aluguel,
     contrato_total |-> total, contrato_parcelas |-> parcelas]

\* Orcamento.valor_contrato_parcela
valor_contrato_parcela(orc) == FDivInt(orc.contrato_total, orc.contrato_parcelas)

(***************************************************************************)
(* CalculadoraAluguel.calcular: the exception raised ("" when none) and the *)
(* record returned (<<>> when an exception is raised).  The checks run in   *)
(* the order of the code: type, installments, then the rule of the type;    *)
(* the record is constructed after the rule has returned.                   *)
(***************************************************************************)
Falha == [erro |-> "ValueError", orc |-> <<>>]

calcular(c) ==
    LET tipo == normalizar_tipo(c.tipo_imovel)
        parcelas == validar_parcelas(c.parcelas_contrato)
    IN  IF tipo.erro # "" THEN Falha
        ELSE IF parcelas.erro # "" THEN Falha
        ELSE IF tipo.val = "Apartamento" THEN
          LET aluguel == calc_apartamento(c.quartos, c.tem_garagem, c.possui_criancas)
          IN  IF aluguel.erro # "" THEN Falha
              ELSE [erro |-> "",
                    orc |-> <<Orcamento(tipo.val, c.quartos, c.tem_garagem,
                                        c.possui_criancas, 0, aluguel.val,
                                        Float(CONTRATO_TOTAL), parcelas.val)>>]
        ELSE IF tipo.val = "Casa" THEN
          LET aluguel == calc_casa(c.quartos, c.tem_garagem)
          IN  IF aluguel.erro # "" THEN Falha
              ELSE [erro |-> "",
                    orc |-> <<Orcamento(tipo.val, c.quartos, c.tem_garagem,
                                        "None", 0, aluguel.val,
                                        Float(CONTRATO_TOTAL), parcelas.val)>>]
        ELSE
          LET aluguel == calc_estudio(c.vagas_estudio)
          IN  IF aluguel.erro # "" THEN Falha
              ELSE [erro |-> "",
                    orc |-> <<Orcamento(tipo.val, 0, FALSE, "None", c.vagas_estudio,
                                        aluguel.val, Float(CONTRATO_TOTAL),
                                        parcelas.val)>>]

(***************************************************************************)
(* Orcamento.resumo: the lines of the report, in order.                     *)
(***************************************************************************)
resumo(orc) ==
    LET cab == <<[texto |-> "==== RESUMO DO ORÇAMENTO ===="],
                 [rotulo |-> "Tipo do imóvel", texto |-> orc.tipo_imovel],
                 IF orc.tipo_imovel # "Estudio"
                 THEN [rotulo |-> "Quartos", n |-> orc.quartos]
                 ELSE [rotulo |-> "Quartos", texto |-> "(não aplicável)"]>>
        gar == IF orc.tipo_imovel \in {"Apartamento", "Casa"}
               THEN <<[rotulo |-> "Garagem",
                       texto |-> IF orc.tem_garagem THEN "Sim" ELSE "Não"]>>
               ELSE <<>>
        cri == IF orc.tipo_imovel = "Apartamento" /\ orc.criancas # "None"
               THEN <<[rotulo |-> "Possui crianças",
                       texto |-> IF orc.criancas = "True" THEN "Sim" ELSE "Não"]>>
               ELSE <<>>
        vag == IF orc.tipo_imovel = "Estudio"
               THEN <<[rotulo |-> "Vagas (estacionamento)", n |-> orc.vagas_estudio]>>
               ELSE <<>>
        fim == <<[rotulo |-> "Aluguel mensal orçado", valor |-> brl(orc.aluguel_mensal)],
                 [rotulo |-> "Contrato imobiliário", valor |-> brl(orc.contrato_total)],
                 [rotulo |-> "Parcelamento do contrato", n |-> orc.contrato_parcelas,
                  valor |-> brl(valor_contrato_parcela(orc))],
                 [texto |-> "============================="]>>
    IN  cab \o gar \o cri \o vag \o fim

(***************************************************************************)
(* ExportadorCSV.exportar_12_parcelas: the rows built by the loop.          *)
(***************************************************************************)
Cabecalho == <<"parcela", "aluguel_mensal", "contrato_parcela", "total_mes",
               "data_referencia">>

\* f"{hoje.month:02d}"
Pad2(m) == IF m < 100 THEN <<m \div 10, m % 10>> ELSE <<m>>

\* f"{hoje.year}-{hoje.month:02d}", written in row i
\* Faulty variant: the label advances one month per row.
data_referencia_avancada(hoje, i) ==
    LET m == hoje.month + i - 1
    IN  [ano |-> hoje.year + ((m - 1) \div 12), sep |-> "-", mes |-> Pad2(((m - 1) % 12) + 1)]

data_referencia(hoje, i) ==
    [ano |-> hoje.year, sep |-> "-", mes |-> Pad2(hoje.month)]

\* contrato_esta_parcela
\* Faulty variant: `i < orc.contrato_parcelas`.
contrato_esta_parcela_menor(orc, i) ==
    IF i < orc.contrato_parcelas THEN valor_contrato_parcela(orc) ELSE Float(0)

contrato_esta_parcela(orc, i) ==
    IF i <= orc.contrato_parcelas THEN valor_contrato_parcela(orc) ELSE Float(0)

\* total_mes
\* Faulty variant: the installment is left out of the total.
total_mes_so_aluguel(orc, i) == orc.aluguel_mensal

total_mes(orc, i) == FAdd(orc.aluguel_mensal, contrato_esta_parcela(orc, i))

linha(orc, hoje, i) ==
    [parcela |-> i,
     aluguel_mensal |-> Fmt2(orc.aluguel_mensal),
     contrato_parcela |-> Fmt2(contrato_esta_parcela(orc, i)),
     total_mes |-> Fmt2(total_mes(orc, i)),
     data_referencia |-> data_referencia(hoje, i)]

linhas(orc, hoje) == [i \in 1 .. (13 - 1) |-> linha(orc, hoje, i)]

(***************************************************************************)
(* The inputs the callers supply.                                           *)
(***************************************************************************)
R_apto == <<" ", "A", "P", "T", "O">>
R_casa == <<"C", "a", "s", "a", " ">>
R_estudio_acento == <<"E", "S", "T", "Ú", "D", "I", "O">>
R_studio == <<"\t", "S", "t", "u", "d", "i", "o", "\n">>
R_kitnet == <<"k", "i", "t", "n", "e", "t">>
R_c_asa == <<"c", " ", "a", "s", "a">>
R_vazio == <<>>

TiposBrutos ==
    { S_apartamento, R_apto, R_casa, S_estudio, R_estudio_acento, R_studio,
      R_kitnet, R_c_asa, R_vazio }

OptBool == {"None", "True", "False"}

Entradas ==
    [tipo_imovel : TiposBrutos,
     quartos : 0 .. MaxQuartos,
     tem_garagem : BOOLEAN,
     possui_criancas : OptBool,
     vagas_estudio : -1 .. MaxVagas,
     parcelas_contrato : 0 .. MAX_PARCELAS_CONTRATO + 1]

\* The calls of a session that builds several records.
EntradasSessao ==
    { [tipo_imovel |-> S_apto, quartos |-> 2, tem_garagem |-> TRUE,
       possui_criancas |-> "False", vagas_estudio |-> 0, parcelas_contrato |-> 3],
      [tipo_imovel |-> S_studio, quartos |-> 1, tem_garagem |-> FALSE,
       possui_criancas |-> "None", vagas_estudio |-> 3, parcelas_contrato |-> 1],
      [tipo_imovel |-> S_casa, quartos |-> 3, tem_garagem |-> FALSE,
       possui_criancas |-> "None", vagas_estudio |-> 0, parcelas_contrato |-> 2] }

\* date.today()
Hojes == {[year |-> 2025, month |-> 12], [year |-> 2026, month |-> 3]}

Caminhos == {"parcelas.csv", "outro.csv"}

(***************************************************************************)
(* State.                                                                   *)
(*   chamada   <<arguments>> of the call of calcular about to run or just   *)
(*             returned; <<>> once the caller has gone on to something else *)
(*   pc        "pronto" before the first call has run, "feito" after        *)
(*   erro      the exception the last call of calcular raised, "" when none *)
(*   retorno   what the call of calcular just made returned: <<>> (nothing) *)
(*             or <<record>>                                                *)
(*   orcs      every Orcamento constructed so far, in construction order    *)
(*   impresso  the text last printed from resumo()                          *)
(*   arquivos  the file system: path -> <<>> (no file) or <<file>>; a file  *)
(*             written in full also records which record (de) was exported  *)
(*             and the value of date.today() (hoje) the export read         *)
(*   historico per call of exportar_12_parcelas, in order: its outcome      *)
(*             ("ok" or the exception raised) and the number of times it    *)
(*             opened the file                                              *)
(***************************************************************************)
InitComum ==
    /\ pc = "pronto"
    /\ erro = ""
    /\ retorno = <<>>
    /\ orcs = <<>>
    /\ impresso = <<>>
    /\ arquivos = [p \in Caminhos |-> <<>>]
    /\ historico = <<>>

Init == (\E c \in Entradas : chamada = <<c>>) /\ InitComum

InitSessao == (\E c \in EntradasSessao : chamada = <<c>>) /\ InitComum

\* orc = calc.calcular(**c)
Chamar(c) ==
    LET r == calcular(c)
    IN  /\ chamada' = <<c>>
        /\ pc' = "feito"
        /\ erro' = r.erro
        /\ retorno' = r.orc
        /\ orcs' = orcs \o r.orc
        /\ UNCHANGED <<impresso, arquivos, historico>>

Calcular == pc = "pronto" /\ Chamar(chamada[1])

Rechamar ==
    /\ pc = "feito"
    /\ Len(orcs) < MaxOrcs
    /\ \E c \in EntradasSessao : Chamar(c)

\* print(orc.resumo())
Resumo(i) ==
    /\ i \in DOMAIN orcs
    /\ impresso' = resumo(orcs[i])
    /\ chamada' = <<>>
    /\ retorno' = <<>>
    /\ UNCHANGED <<pc, erro, orcs, arquivos, historico>>

(***************************************************************************)
(* ExportadorCSV.exportar_12_parcelas(orcs[i], caminho) on the day hoje.    *)
(* falha = "open": open() raises OSError, the path is left as it was.       *)
(* falha = "write": open() has truncated the file and the buffered rows are *)
(* lost when the write raises OSError.  falha = "": all is written.         *)
(***************************************************************************)
\* Faulty variant: a failed export resets the installments of the record.
ExportarInvalidaNaFalha(i, caminho, hoje, falha) ==
    LET ls == linhas(orcs[i], hoje)
        completo == [de |-> i, hoje |-> hoje, cabecalho |-> Cabecalho, linhas |-> ls]
        vazio == [cabecalho |-> <<>>, linhas |-> <<>>]
    IN  /\ i \in DOMAIN orcs
        /\ Len(historico) < MaxExport
        /\ arquivos' = [arquivos EXCEPT ![caminho] =
                          IF falha = "" THEN <<completo>>
                          ELSE IF falha = "open" THEN @
                          ELSE <<vazio>>]
        /\ historico' = Append(historico,
                               [status |-> IF falha = "" THEN "ok" ELSE "OSError",
                                aberturas |-> 1])
        /\ orcs' = IF falha = "" THEN orcs
                   ELSE [orcs EXCEPT ![i].contrato_parcelas = 1]
        /\ chamada' = <<>>
        /\ retorno' = <<>>
        /\ UNCHANGED <<pc, erro, impresso>>

Exportar(i, caminho, hoje, falha) ==
    LET ls == linhas(orcs[i], hoje)
        completo == [de |-> i, hoje |-> hoje, cabecalho |-> Cabecalho, linhas |-> ls]
        vazio == [cabecalho |-> <<>>, linhas |-> <<>>]
    IN  /\ i \in DOMAIN orcs
        /\ Len(historico) < MaxExport
        /\ arquivos' = [arquivos EXCEPT ![caminho] =
                          IF falha = "" THEN <<completo>>
                          ELSE IF falha = "open" THEN @
                          ELSE <<vazio>>]
        /\ historico' = Append(historico,
                               [status |-> IF falha = "" THEN "ok" ELSE "OSError",
                                aberturas |-> 1])
        /\ chamada' = <<>>
        /\ retorno' = <<>>
        /\ UNCHANGED <<pc, erro, orcs, impresso>>

Falhas == {"", "open", "write"}

Emitir == \E i \in 1 .. MaxOrcs : Resumo(i)

Gravar == \E i \in 1 .. MaxOrcs, caminho \in Caminhos, hoje \in Hojes, falha \in Falhas :
              Exportar(i, caminho, hoje, falha)

Next == Calcular \/ Emitir \/ Gravar

Spec == Init /\ [][Next]_vars

NextSessao == Calcular \/ Rechamar \/ Emitir \/ Gravar

SpecSessao == InitSessao /\ [][NextSessao]_vars

(***************************************************************************)
(* Vocabulary of the properties.                                            *)
(***************************************************************************)
\* A call of calcular has just returned (or raised); c is its arguments.
Retornou == pc = "feito" /\ chamada # <<>>

\* The property type each raw string of TiposBrutos is documented to denote.
TipoPedido(c) ==
    IF c.tipo_imovel \in {S_apartamento, R_apto} THEN "Apartamento"
    ELSE IF c.tipo_imovel \in {R_casa, S_casa} THEN "Casa"
    ELSE IF c.tipo_imovel \in {S_estudio, R_estudio_acento, R_studio, S_studio}
         THEN "Estudio"
    ELSE "invalido"

ParcelasValidas(c) == c.parcelas_contrato \in 1 .. 5

\* The files an export has written in full.
Completos == {p \in Caminhos : arquivos[p] # <<>> /\ arquivos[p][1].linhas # <<>>}

Arq(p) == arquivos[p][1]

Zero2 == [int |-> 0, dec |-> <<0, 0>>]

Dinheiro(reais, centavos) ==
    [int |-> reais, dec |-> <<centavos \div 10, centavos % 10>>]

RECURSIVE SomaContrato(_, _)
SomaContrato(ls, k) ==
    IF k = 0 THEN 0 ELSE SomaContrato(ls, k - 1) + EmCentavos(ls[k].contrato_parcela)

(***************************************************************************)
(* C1: an Apartment request with 1 or 2 bedrooms is quoted                  *)
(* 700 + 200 (2 bedrooms) + 300 (garage), times 0.95 exactly when the       *)
(* children answer is an explicit False; None and True give the full rent;  *)
(* the record keeps the children answer as supplied.                        *)
(***************************************************************************)
C1_AluguelApartamento ==
    Retornou =>
      LET c == chamada[1]
          cheio == 700 + (IF c.quartos = 2 THEN 200 ELSE 0)
                       + (IF c.tem_garagem THEN 300 ELSE 0)
      IN  (TipoPedido(c) = "Apartamento" /\ c.quartos \in {1, 2} /\ ParcelasValidas(c)) =>
            /\ retorno # <<>>
            /\ retorno[1].aluguel_mensal =
                 (IF c.possui_criancas = "False" THEN Rat(cheio * 95, 100) ELSE Rat(cheio, 1))
            /\ retorno[1].criancas = c.possui_criancas

C1_Witness ==
    /\ Retornou
    /\ TipoPedido(chamada[1]) = "Apartamento"
    /\ chamada[1].quartos = 2 /\ chamada[1].tem_garagem
    /\ chamada[1].possui_criancas = "False"
    /\ retorno # <<>>
    /\ retorno[1].aluguel_mensal = Rat(1140, 1)
    /\ retorno[1].criancas = "False"

(***************************************************************************)
(* C2: a Studio request with slots >= 0 is quoted 1200 for no slot, 1450    *)
(* for 1 or 2 slots and 1450 + 60 per slot beyond 2, whatever bedrooms,     *)
(* garage and children the caller passed.                                   *)
(***************************************************************************)
C2_AluguelEstudio ==
    Retornou =>
      LET c == chamada[1]
          v == c.vagas_estudio
      IN  (TipoPedido(c) = "Estudio" /\ v >= 0 /\ ParcelasValidas(c)) =>
            /\ retorno # <<>>
            /\ retorno[1].aluguel_mensal =
                 Rat(IF v = 0 THEN 1200 ELSE IF v <= 2 THEN 1450 ELSE 1450 + 60 * (v - 2), 1)

C2_Witness ==
    /\ Retornou
    /\ TipoPedido(chamada[1]) = "Estudio"
    /\ chamada[1].vagas_estudio = 1
    /\ chamada[1].quartos = 3 /\ chamada[1].tem_garagem
    /\ chamada[1].possui_criancas = "False"
    /\ retorno # <<>>
    /\ retorno[1].aluguel_mensal = Rat(1450, 1)

(***************************************************************************)
(* C3: a House request with 1 or 2 bedrooms is quoted                       *)
(* 900 + 250 (2 bedrooms) + 300 (garage) whatever the children answer, and  *)
(* the record carries criancas = None.                                      *)
(***************************************************************************)
C3_AluguelCasa ==
    Retornou =>
      LET c == chamada[1]
      IN  (TipoPedido(c) = "Casa" /\ c.quartos \in {1, 2} /\ ParcelasValidas(c)) =>
            /\ retorno # <<>>
            /\ retorno[1].aluguel_mensal =
                 Rat(900 + (IF c.quartos = 2 THEN 250 ELSE 0)
                         + (IF c.tem_garagem THEN 300 ELSE 0), 1)
            /\ retorno[1].criancas = "None"

C3_Witness ==
    /\ Retornou
    /\ TipoPedido(chamada[1]) = "Casa"
    /\ chamada[1].quartos = 2 /\ chamada[1].tem_garagem
    /\ chamada[1].possui_criancas = "False"
    /\ retorno # <<>>
    /\ retorno[1].aluguel_mensal = Rat(1450, 1)
    /\ retorno[1].criancas = "None"

(***************************************************************************)
(* C4: calcular raises ValueError exactly when the type matches no alias,   *)
(* or the installments are outside 1..5, or the type is Apartment or House  *)
(* and the bedrooms are not 1 or 2, or the type is Studio and slots < 0.    *)
(* When it raises no record has been constructed or returned; otherwise     *)
(* one record is constructed and returned.                                  *)
(***************************************************************************)
DeveFalhar(c) ==
    \/ TipoPedido(c) = "invalido"
    \/ ~ParcelasValidas(c)
    \/ TipoPedido(c) \in {"Apartamento", "Casa"} /\ c.quartos \notin {1, 2}
    \/ TipoPedido(c) = "Estudio" /\ c.vagas_estudio < 0

C4_ErroExatamenteQuando ==
    (Retornou /\ Len(orcs) <= 1) =>
      /\ (erro = "ValueError") <=> DeveFalhar(chamada[1])
      /\ erro = "ValueError" => (retorno = <<>> /\ orcs = <<>>)
      /\ erro # "ValueError" => (erro = "" /\ Len(retorno) = 1 /\ orcs = retorno)

C4_Witness ==
    /\ Retornou
    /\ TipoPedido(chamada[1]) = "Estudio"
    /\ chamada[1].vagas_estudio < 0
    /\ ParcelasValidas(chamada[1])
    /\ erro = "ValueError"
    /\ retorno = <<>>
    /\ orcs = <<>>

(***************************************************************************)
(* C5: every record calcular has constructed has bedrooms in {0,1,2}, 0     *)
(* exactly for a Studio; installments in 1..5; slots >= 0 and 0 unless      *)
(* Studio; rent >= 0; contract total 2000.00; criancas = None unless        *)
(* Apartment; no garage for a Studio.                                       *)
(***************************************************************************)
OrcamentoValido(o) ==
    /\ o.tipo_imovel \in {"Apartamento", "Casa", "Estudio"}
    /\ o.quartos \in {0, 1, 2}
    /\ (o.quartos = 0) <=> (o.tipo_imovel = "Estudio")
    /\ o.contrato_parcelas \in 1 .. 5
    /\ o.vagas_estudio >= 0
    /\ (o.tipo_imovel # "Estudio" => o.vagas_estudio = 0)
    /\ o.aluguel_mensal.num >= 0 /\ o.aluguel_mensal.den > 0
    /\ o.contrato_total = Rat(2000, 1)
    /\ (o.tipo_imovel # "Apartamento" => o.criancas = "None")
    /\ (o.tipo_imovel = "Estudio" => o.tem_garagem = FALSE)

C5_RegistroValido ==
    /\ \A k \in DOMAIN orcs : OrcamentoValido(orcs[k])
    /\ \A k \in DOMAIN retorno : OrcamentoValido(retorno[k])

C5_Witness ==
    /\ Retornou
    /\ TipoPedido(chamada[1]) = "Estudio"
    /\ chamada[1].quartos = 3 /\ chamada[1].tem_garagem
    /\ chamada[1].possui_criancas = "True"
    /\ retorno # <<>>
    /\ retorno[1].quartos = 0
    /\ retorno[1].tem_garagem = FALSE
    /\ retorno[1].criancas = "None"
    /\ retorno[1].vagas_estudio = MaxVagas

(***************************************************************************)
(* C6: an exported schedule has exactly 12 rows numbered 1..12 in order;    *)
(* row i carries the installment (2000 / n to the cent) when i <= n and     *)
(* 0.00 when i > n, so exactly the first n rows carry a non-zero            *)
(* installment; every row carries the rent of the quote.                    *)
(***************************************************************************)
C6_DozeLinhas ==
    \A p \in Completos :
      LET ls == Arq(p).linhas
          o  == orcs[Arq(p).de]
          n  == o.contrato_parcelas
      IN  /\ Len(ls) = 12
          /\ \A i \in 1 .. 12 :
               /\ ls[i].parcela = i
               /\ ls[i].aluguel_mensal = Fmt2(o.aluguel_mensal)
               /\ (i <= n => ls[i].contrato_parcela = Fmt2(Rat(2000, n)))
               /\ (i > n => ls[i].contrato_parcela = Zero2)
          /\ {i \in 1 .. 12 : ls[i].contrato_parcela # Zero2} = 1 .. n

C6_Witness ==
    \E p \in Completos :
      /\ orcs[Arq(p).de].contrato_parcelas = 3
      /\ Arq(p).linhas[3].contrato_parcela = Dinheiro(666, 67)
      /\ Arq(p).linhas[4].contrato_parcela = Zero2
      /\ Arq(p).linhas[12].parcela = 12

(***************************************************************************)
(* C7: in every exported row the printed total equals the printed rent plus *)
(* the printed installment; for Apartment, 2 bedrooms, garage, no children, *)
(* 3 installments, rows 1-3 show 666.67 and 1806.67 and rows 4-12 show 0.00 *)
(* and 1140.00.                                                             *)
(***************************************************************************)
Exemplo1140(o) ==
    /\ o.tipo_imovel = "Apartamento" /\ o.quartos = 2 /\ o.tem_garagem
    /\ o.criancas = "False" /\ o.contrato_parcelas = 3

C7_TotalSomaImpressa ==
    \A p \in Completos :
      LET ls == Arq(p).linhas
      IN  /\ \A i \in DOMAIN ls :
               EmCentavos(ls[i].total_mes) =
                 EmCentavos(ls[i].aluguel_mensal) + EmCentavos(ls[i].contrato_parcela)
          /\ Exemplo1140(orcs[Arq(p).de]) =>
               \A i \in DOMAIN ls :
                 /\ ls[i].contrato_parcela = (IF i <= 3 THEN Dinheiro(666, 67) ELSE Zero2)
                 /\ ls[i].total_mes =
                      (IF i <= 3 THEN Dinheiro(1806, 67) ELSE Dinheiro(1140, 0))

C7_Witness ==
    \E p \in Completos :
      /\ Exemplo1140(orcs[Arq(p).de])
      /\ Arq(p).linhas[1].total_mes = Dinheiro(1806, 67)
      /\ Arq(p).linhas[4].total_mes = Dinheiro(1140, 0)

(***************************************************************************)
(* C8: the 12 rows of one exported schedule carry one and the same          *)
(* reference label, the year and zero-padded month of the day of the        *)
(* export; it does not advance from row to row.                             *)
(***************************************************************************)
C8_RotuloUnico ==
    \A p \in Completos :
      LET ls == Arq(p).linhas
          h  == Arq(p).hoje
      IN  \A i \in DOMAIN ls :
            /\ ls[i].data_referencia = ls[1].data_referencia
            /\ ls[i].data_referencia.ano = h.year
            /\ ls[i].data_referencia.sep = "-"
            /\ ls[i].data_referencia.mes = <<h.month \div 10, h.month % 10>>

C8_Witness ==
    \E p \in Completos :
      /\ Arq(p).hoje.month = 3
      /\ Len(Arq(p).linhas) = 12
      /\ Arq(p).linhas[12].data_referencia = [ano |-> 2026, sep |-> "-", mes |-> <<0, 3>>]

(***************************************************************************)
(* C9: no step of any sequence of calcular, resumo and export operations    *)
(* (exports that raise OSError included) changes a record already built;    *)
(* a file an export writes in full has the same rows as any file written    *)
(* earlier from the same record on the same day; and every export opens     *)
(* its file once (a failed export is not retried).                          *)
(***************************************************************************)
PassoPreserva ==
    /\ \A k \in DOMAIN orcs : k \in DOMAIN orcs' /\ orcs'[k] = orcs[k]
    /\ \A p \in Completos' : \A q \in Completos :
         (Arq(p)'.de = Arq(q).de /\ Arq(p)'.hoje = Arq(q).hoje) =>
           Arq(p)'.linhas = Arq(q).linhas
    /\ historico' # historico =>
         /\ Len(historico') = Len(historico) + 1
         /\ historico'[Len(historico')].aberturas = 1
         /\ (historico'[Len(historico')].status # "ok" =>
               \A p \in Completos' : p \in Completos /\ Arq(p)' = Arq(p))

C9_RegistroIntacto == [][PassoPreserva]_vars

C9_Witness ==
    /\ Len(orcs) = 2
    /\ Len(historico) = 3
    /\ historico[1].status = "ok"
    /\ historico[2].status = "OSError"
    /\ historico[3].status = "ok"
    /\ Completos = Caminhos
    /\ \E p \in Caminhos, q \in Caminhos :
         /\ p # q
         /\ Arq(p).de = Arq(q).de /\ Arq(p).hoje = Arq(q).hoje
         /\ Arq(p).linhas = Arq(q).linhas

(***************************************************************************)
(* C10 (as stated): the installments printed in the 12 rows of a schedule   *)
(* add up to exactly the contract total, 2000.00.                           *)
(***************************************************************************)
C10_SomaExata ==
    \A p \in Completos : SomaContrato(Arq(p).linhas, Len(Arq(p).linhas)) = 200000

(***************************************************************************)
(* C10 (amended): the installments printed in the 12 rows add up to exactly *)
(* 2000.00 when the contract is paid in 1, 2, 4 or 5 installments, and to   *)
(* 2000.01 when it is paid in 3 (3 x 666.67).                               *)
(***************************************************************************)
C10_SomaSalvoTresParcelas ==
    \A p \in Completos :
      SomaContrato(Arq(p).linhas, Len(Arq(p).linhas)) =
        (IF orcs[Arq(p).de].contrato_parcelas = 3 THEN 200001 ELSE 200000)

C10_Witness ==
    \E p \in Completos :
      /\ orcs[Arq(p).de].contrato_parcelas = 3
      /\ SomaContrato(Arq(p).linhas, 12) = 200001

====
